---- MODULE Spec2Model ----
(***************************************************************************)
(* A model of the DNS wire codec of montague (src/dns/structs.rs): the     *)
(* fixed-width big-endian integer helpers, the bit-packed header flags,    *)
(* the question and resource-record codecs and the packet codec.           *)
(*                                                                         *)
(* Bytes are naturals 0..255 and a buffer is a sequence of bytes.  Rust    *)
(* offsets are 0-based: the byte at Rust offset i is buffer[i + 1].  A     *)
(* panic (a failed slice bound check, a failed expect) is an outcome of    *)
(* its own, distinct from a returned Ok or Err.                            *)
(***************************************************************************)
EXTENDS Integers, Sequences, FiniteSets, TLC

VARIABLES
  pc,      \* position of the operation under way
  input,   \* the value handed to the operation (a number, flags, a record, a packet)
  bytes,   \* the byte buffer an encode produced or a decode consumes
  result,  \* what the operation returned, or the panic that ended it
  frame    \* the locals of DnsPacket::from_bytes while it runs

vars == <<pc, input, bytes, result, frame>>

(***************************************************************************)
(* Machine arithmetic                                                      *)
(***************************************************************************)

Byte == 0..255

\* x >> k on an unsigned integer
Shr(x, k) == x \div (2 ^ k)

\* x << k on an unsigned integer of w bits: the bits shifted out are dropped
Shl(x, k, w) == (x * (2 ^ k)) % (2 ^ w)

RECURSIVE BitAnd(_, _)
\* a & b
BitAnd(a, b) ==
  IF a = 0 \/ b = 0 THEN 0
  ELSE (IF a % 2 = 1 /\ b % 2 = 1 THEN 1 ELSE 0) + 2 * BitAnd(a \div 2, b \div 2)

RECURSIVE BitOr(_, _)
\* a | b
BitOr(a, b) ==
  IF a = 0 THEN b
  ELSE IF b = 0 THEN a
  ELSE (IF a % 2 = 1 \/ b % 2 = 1 THEN 1 ELSE 0) + 2 * BitOr(a \div 2, b \div 2)

\* `x as u8`, `x as u16`: the cast keeps the low bits
AsU8(x) == x % (2 ^ 8)
AsU16(x) == x % (2 ^ 16)

\* A u32 is held as two 16-bit limbs <<high, low>> (TLC's integers are
\* 32-bit signed); the operators below are u32 arithmetic on that form.
U32From(x) == << 0, x >>

\* x << k on a u32
U32Shl(x, k) ==
  IF k >= 16 THEN << Shl(x[2], k - 16, 16), 0 >>
  ELSE << (Shl(x[1], k, 16) + Shr(x[2], 16 - k)) % (2 ^ 16), Shl(x[2], k, 16) >>

\* x >> k on a u32
U32Shr(x, k) ==
  IF k >= 16 THEN << 0, Shr(x[1], k - 16) >>
  ELSE << Shr(x[1], k), Shr(x[2], k) + Shl(x[1] % (2 ^ k), 16 - k, 16) >>

\* x + y on u32 (wrapping; the sums of the code never carry out of 32 bits)
U32Add(x, y) ==
  << (x[1] + y[1] + ((x[2] + y[2]) \div (2 ^ 16))) % (2 ^ 16), (x[2] + y[2]) % (2 ^ 16) >>

\* x & m on a u32, m < 2^16
U32And(x, m) == << 0, BitAnd(x[2], m) >>

\* `x as u8` on a u32
U32AsU8(x) == x[2] % (2 ^ 8)

\* bytes[lo..hi] of a slice: the bound check of the slice expression
SliceOk(b, lo, hi) == lo <= hi /\ hi <= Len(b)
Slice(b, lo, hi) == SubSeq(b, lo + 1, hi)

(***************************************************************************)
(* Primitive integer codec                                                 *)
(***************************************************************************)

big_endian_bytes_to_u16(b) == Shl(b[1], 8, 16) + b[2]

big_endian_bytes_to_u32(b) ==
  U32Add(U32Add(U32Add(U32Shl(U32From(b[1]), 24), U32Shl(U32From(b[2]), 16)),
                U32Shl(U32From(b[3]), 8)),
         U32From(b[4]))

\* faulty variant: the shift is not applied to the high byte
u16_to_big_endian_bytes_noshift(num) ==
  << AsU8(BitAnd(num, 255)), AsU8(BitAnd(num, 255)) >>

u16_to_big_endian_bytes(num) ==
  << AsU8(BitAnd(Shr(num, 8), 255)), AsU8(BitAnd(num, 255)) >>

u32_to_big_endian_bytes(num) ==
  << U32AsU8(U32And(U32Shr(num, 24), 255)), U32AsU8(U32And(U32Shr(num, 16), 255)),
     U32AsU8(U32And(U32Shr(num, 8), 255)), U32AsU8(U32And(num, 255)) >>

(***************************************************************************)
(* Enumeration registries: <<variant, discriminant>> pairs                 *)
(***************************************************************************)

DnsOpcode ==
  { <<"Query", 0>>, <<"IQuery", 1>>, <<"Status", 2>>, <<"Zone", 4>>, <<"Update", 5>>,
    <<"DSO", 6>> }

DnsRCode ==
  { <<"NoError", 0>>, <<"FormError", 1>>, <<"ServFail", 2>>, <<"NXDomain", 3>>,
    <<"NotImp", 4>>, <<"Refused", 5>>, <<"YXDomain", 6>>, <<"YXRRSet", 7>>,
    <<"NXRRSet", 8>>, <<"NotAuth", 9>>, <<"NotZone", 10>>, <<"DSOTypeNI", 11>> }

DnsRRType ==
  { <<"A", 1>>, <<"NS", 2>>, <<"MD", 3>>, <<"MF", 4>>, <<"CNAME", 5>>, <<"SOA", 6>>,
    <<"MB", 7>>, <<"MG", 8>>, <<"MR", 9>>, <<"NULL", 10>>, <<"WKS", 11>>, <<"PTR", 12>>,
    <<"HINFO", 13>>, <<"MINFO", 14>>, <<"MX", 15>>, <<"TXT", 16>>, <<"RP", 17>>,
    <<"AFSDB", 18>>, <<"X25", 19>>, <<"ISDN", 20>>, <<"RT", 21>>, <<"NSAP", 22>>,
    <<"NSAPPTR", 23>>, <<"SIG", 24>>, <<"KEY", 25>>, <<"PX", 26>>, <<"GPOS", 27>>,
    <<"AAAA", 28>>, <<"LOC", 29>>, <<"NXT", 30>>, <<"EID", 31>>, <<"NIMLOC", 32>>,
    <<"SRV", 33>>, <<"ATMA", 34>>, <<"NAPTR", 35>>, <<"KX", 36>>, <<"CERT", 37>>,
    <<"A6", 38>>, <<"DNAME", 39>>, <<"SINK", 40>>, <<"OPT", 41>>, <<"APL", 42>>,
    <<"DS", 43>>, <<"SSHFP", 44>>, <<"IPSECKEY", 45>>, <<"RRSIG", 46>>, <<"NSEC", 47>>,
    <<"DNSKEY", 48>>, <<"DHCID", 49>>, <<"NSEC3", 50>>, <<"NSEC3PARAM", 51>>,
    <<"TLSA", 52>>, <<"SMIMEA", 53>>, <<"HIP", 55>>, <<"NINFO", 56>>, <<"RKEY", 57>>,
    <<"TALINK", 58>>, <<"CDS", 59>>, <<"CDNSKEY", 60>>, <<"OPENPGPKEY", 61>>,
    <<"CSYNC", 62>>, <<"ZONEMD", 63>>, <<"SPF", 99>>, <<"UINFO", 100>>, <<"UID", 101>>,
    <<"GID", 102>>, <<"UNSPEC", 103>>, <<"NID", 104>>, <<"L32", 105>>, <<"L64", 106>>,
    <<"LP", 107>>, <<"EUI4", 108>>, <<"EUI64", 109>>, <<"TKEY", 249>>, <<"TSIG", 250>>,
    <<"IXFR", 251>>, <<"AXF", 252>>, <<"MAILB", 253>>, <<"MAILA", 254>>, <<"ANY", 255>>,
    <<"URI", 256>>, <<"CAA", 257>>, <<"AVC", 258>>, <<"DOA", 259>>, <<"AMTRELAY", 260>>,
    <<"TA", 32768>>, <<"DLV", 32769>> }

DnsClass ==
  { <<"IN", 1>>, <<"CS", 2>>, <<"CH", 3>>, <<"HS", 4>>, <<"NONE", 254>>, <<"ANY", 255>> }

\* num::FromPrimitive::from_u8 / from_u16 as derived: Some(variant) or None
FromPrimitive(enum, n) ==
  IF \E e \in enum : e[2] = n
  THEN [some |-> TRUE, v |-> (CHOOSE e \in enum : e[2] = n)[1]]
  ELSE [some |-> FALSE, v |-> "None"]

\* `variant as u8`, `variant as u16`: the discriminant
Discriminant(enum, v) == (CHOOSE e \in enum : e[1] = v)[2]

Variants(enum) == { e[1] : e \in enum }

Ok(v) == [kind |-> "Ok", val |-> v]
Panic(msg) == [kind |-> "Panic", msg |-> msg]
None == [kind |-> "None"]

(***************************************************************************)
(* Flags codec                                                             *)
(***************************************************************************)

\* faulty variant: the opcode read from bits 4..7 of the first byte
DnsFlags_from_bytes_opshift(b) ==
  LET opcode == FromPrimitive(DnsOpcode, BitAnd(Shr(b[1], 4), 15))
      rcode  == FromPrimitive(DnsRCode, BitAnd(b[2], 15))
  IN  IF ~opcode.some THEN Panic("Invalid opcode")
      ELSE IF ~rcode.some THEN Panic("Invalid rcode")
      ELSE Ok([ qr_bit |-> BitAnd(Shr(b[1], 7), 1) = 1,
                opcode |-> opcode.v,
                aa_bit |-> BitAnd(Shr(b[1], 2), 1) = 1,
                tc_bit |-> BitAnd(Shr(b[1], 1), 1) = 1,
                rd_bit |-> BitAnd(b[1], 1) = 1,
                ra_bit |-> BitAnd(Shr(b[2], 7), 1) = 1,
                ad_bit |-> BitAnd(Shr(b[2], 5), 1) = 1,
                cd_bit |-> BitAnd(Shr(b[2], 4), 1) = 1,
                rcode  |-> rcode.v ])

DnsFlags_from_bytes(b) ==
  LET qr_bit == BitAnd(Shr(b[1], 7), 1) = 1
      aa_bit == BitAnd(Shr(b[1], 2), 1) = 1
      tc_bit == BitAnd(Shr(b[1], 1), 1) = 1
      rd_bit == BitAnd(b[1], 1) = 1
      ra_bit == BitAnd(Shr(b[2], 7), 1) = 1
      ad_bit == BitAnd(Shr(b[2], 5), 1) = 1
      cd_bit == BitAnd(Shr(b[2], 4), 1) = 1
      opcode_val == BitAnd(Shr(b[1], 3), 15)
      rcode_val  == BitAnd(b[2], 15)
      opcode == FromPrimitive(DnsOpcode, opcode_val)
      rcode  == FromPrimitive(DnsRCode, rcode_val)
  IN  IF ~opcode.some THEN Panic("Invalid opcode")
      ELSE IF ~rcode.some THEN Panic("Invalid rcode")
      ELSE Ok([ qr_bit |-> qr_bit, opcode |-> opcode.v, aa_bit |-> aa_bit,
                tc_bit |-> tc_bit, rd_bit |-> rd_bit, ra_bit |-> ra_bit,
                ad_bit |-> ad_bit, cd_bit |-> cd_bit, rcode |-> rcode.v ])

\* faulty variant: the ad and cd masks exchanged
DnsFlags_to_bytes_adcd(f) ==
  LET f0a == IF f.qr_bit THEN BitOr(0, 128) ELSE 0
      f0b == IF f.aa_bit THEN BitOr(f0a, 4) ELSE f0a
      f0c == IF f.tc_bit THEN BitOr(f0b, 2) ELSE f0b
      f0d == IF f.rd_bit THEN BitOr(f0c, 1) ELSE f0c
      f1a == IF f.ra_bit THEN BitOr(0, 128) ELSE 0
      f1b == IF f.ad_bit THEN BitOr(f1a, 16) ELSE f1a
      f1c == IF f.cd_bit THEN BitOr(f1b, 32) ELSE f1b
      opcode_num == BitAnd(AsU8(Discriminant(DnsOpcode, f.opcode)), 15)
      rcode_num  == BitAnd(AsU8(Discriminant(DnsRCode, f.rcode)), 15)
  IN  << BitOr(f0d, Shl(opcode_num, 3, 8)), BitOr(f1c, rcode_num) >>

\* faulty variant: the opcode shifted into bits 4..7, over the qr bit
DnsFlags_to_bytes_opshift4(f) ==
  LET f0a == IF f.qr_bit THEN BitOr(0, 128) ELSE 0
      f0b == IF f.aa_bit THEN BitOr(f0a, 4) ELSE f0a
      f0c == IF f.tc_bit THEN BitOr(f0b, 2) ELSE f0b
      f0d == IF f.rd_bit THEN BitOr(f0c, 1) ELSE f0c
      f1a == IF f.ra_bit THEN BitOr(0, 128) ELSE 0
      f1b == IF f.ad_bit THEN BitOr(f1a, 32) ELSE f1a
      f1c == IF f.cd_bit THEN BitOr(f1b, 16) ELSE f1b
      opcode_num == BitAnd(AsU8(Discriminant(DnsOpcode, f.opcode)), 15)
      rcode_num  == BitAnd(AsU8(Discriminant(DnsRCode, f.rcode)), 15)
  IN  << BitOr(f0d, Shl(opcode_num, 4, 8)), BitOr(f1c, rcode_num) >>

DnsFlags_to_bytes(f) ==
  LET f0a == IF f.qr_bit THEN BitOr(0, 128) ELSE 0
      f0b == IF f.aa_bit THEN BitOr(f0a, 4) ELSE f0a
      f0c == IF f.tc_bit THEN BitOr(f0b, 2) ELSE f0b
      f0d == IF f.rd_bit THEN BitOr(f0c, 1) ELSE f0c
      f1a == IF f.ra_bit THEN BitOr(0, 128) ELSE 0
      f1b == IF f.ad_bit THEN BitOr(f1a, 32) ELSE f1a
      f1c == IF f.cd_bit THEN BitOr(f1b, 16) ELSE f1b
      opcode_num == BitAnd(AsU8(Discriminant(DnsOpcode, f.opcode)), 15)
      rcode_num  == BitAnd(AsU8(Discriminant(DnsRCode, f.rcode)), 15)
  IN  << BitOr(f0d, Shl(opcode_num, 3, 8)), BitOr(f1c, rcode_num) >>

(***************************************************************************)
(* Name codec.  The names module is not among the sources at hand; it is   *)
(* modelled from section 4.2 of the specification.  A label is a sequence  *)
(* of bytes.                                                               *)
(***************************************************************************)

RECURSIVE serialize_name(_)
\* each label prefixed by its length, then the zero terminator; never compressed
serialize_name(labels) ==
  IF labels = <<>> THEN <<0>>
  ELSE <<Len(Head(labels))>> \o Head(labels) \o serialize_name(Tail(labels))

NameErr(e) == [ok |-> FALSE, err |-> e]

RECURSIVE ReadLabels(_, _, _, _)
\* the labels from offset `at` on, appended to acc, and the caller-visible cursor;
\* `start` is the offset at which the run of labels being read began
ReadLabels(b, start, at, acc) ==
  IF at >= Len(b) THEN NameErr("TruncatedInput")
  ELSE LET c == b[at + 1] IN
    IF c = 0 THEN
      IF Len(serialize_name(acc)) > 255 THEN NameErr("InvalidNameEncoding")
      ELSE [ok |-> TRUE, labels |-> acc, pos |-> at + 1]
    ELSE IF c <= 63 THEN
      IF at + 1 + c > Len(b) THEN NameErr("TruncatedInput")
      ELSE ReadLabels(b, start, at + 1 + c, Append(acc, Slice(b, at + 1, at + 1 + c)))
    ELSE IF c >= 192 THEN
      IF at + 2 > Len(b) THEN NameErr("TruncatedInput")
      ELSE LET target == (c % 64) * 256 + b[at + 2] IN
        \* a followed pointer must target an offset strictly smaller than the one
        \* the current run of labels began at, so every chain of pointers ends
        IF target >= start THEN NameErr("PointerLoopOrOverflow")
        ELSE LET r == ReadLabels(b, target, target, acc) IN
          IF r.ok THEN [ok |-> TRUE, labels |-> r.labels, pos |-> at + 2] ELSE r
    ELSE NameErr("InvalidNameEncoding")

deserialize_name(b, pos) == ReadLabels(b, pos, pos, <<>>)

(***************************************************************************)
(* Question and resource-record codecs                                     *)
(***************************************************************************)

DnsQuestion_to_bytes(q) ==
  serialize_name(q.qname)
    \o u16_to_big_endian_bytes(AsU16(Discriminant(DnsRRType, q.qtype)))
    \o u16_to_big_endian_bytes(AsU16(Discriminant(DnsClass, q.qclass)))

\* faulty variant: the TTL written as two bytes
DnsResourceRecord_to_bytes_ttl16(rr) ==
  serialize_name(rr.name)
    \o u16_to_big_endian_bytes(AsU16(Discriminant(DnsRRType, rr.rr_type)))
    \o u16_to_big_endian_bytes(AsU16(Discriminant(DnsClass, rr.class)))
    \o u16_to_big_endian_bytes(rr.ttl[2])
    \o u16_to_big_endian_bytes(rr.rd_length)
    \o rr.record

DnsResourceRecord_to_bytes(rr) ==
  serialize_name(rr.name)
    \o u16_to_big_endian_bytes(AsU16(Discriminant(DnsRRType, rr.rr_type)))
    \o u16_to_big_endian_bytes(AsU16(Discriminant(DnsClass, rr.class)))
    \o u32_to_big_endian_bytes(rr.ttl)
    \o u16_to_big_endian_bytes(rr.rd_length)
    \o rr.record

\* one pass of the question loop of DnsPacket::from_bytes at cursor pos
DecodeQuestion(b, pos) ==
  LET nm == deserialize_name(b, pos) IN
  \* deserialize_name returns a plain tuple, so a name it cannot decode ends the call
  IF ~nm.ok THEN Panic("deserialize_name")
  ELSE LET new_pos == nm.pos IN
    IF ~SliceOk(b, new_pos, new_pos + 2) \/ ~SliceOk(b, new_pos + 2, new_pos + 4)
    THEN Panic("range end index out of range for slice")
    ELSE LET qtype_num  == big_endian_bytes_to_u16(Slice(b, new_pos, new_pos + 2))
             qclass_num == big_endian_bytes_to_u16(Slice(b, new_pos + 2, new_pos + 4))
             qtype  == FromPrimitive(DnsRRType, qtype_num)
             qclass == FromPrimitive(DnsClass, qclass_num)
         IN  IF ~qtype.some THEN Panic("Invalid qtype")
             ELSE IF ~qclass.some THEN Panic("Invalid qclass")
             ELSE Ok([ item |-> [qname |-> nm.labels, qtype |-> qtype.v,
                                 qclass |-> qclass.v],
                       pos |-> new_pos + 4 ])

\* faulty variant: the returned cursor not moved past the payload
DnsResourceRecord_from_bytes_nopayload(packet_bytes, pos) ==
  LET nm == deserialize_name(packet_bytes, pos) IN
  IF ~nm.ok THEN Panic("deserialize_name")
  ELSE LET new_pos == nm.pos IN
    IF \/ ~SliceOk(packet_bytes, new_pos, new_pos + 2)
       \/ ~SliceOk(packet_bytes, new_pos + 2, new_pos + 4)
       \/ ~SliceOk(packet_bytes, new_pos + 4, new_pos + 8)
       \/ ~SliceOk(packet_bytes, new_pos + 8, new_pos + 10)
    THEN Panic("range end index out of range for slice")
    ELSE LET rrtype_num == big_endian_bytes_to_u16(Slice(packet_bytes, new_pos, new_pos + 2))
             class_num  == big_endian_bytes_to_u16(Slice(packet_bytes, new_pos + 2, new_pos + 4))
             ttl        == big_endian_bytes_to_u32(Slice(packet_bytes, new_pos + 4, new_pos + 8))
             rd_length  == big_endian_bytes_to_u16(Slice(packet_bytes, new_pos + 8, new_pos + 10))
             pos1       == new_pos + 10
         IN  IF ~SliceOk(packet_bytes, pos1, pos1 + rd_length)
             THEN Panic("range end index out of range for slice")
             ELSE LET record  == Slice(packet_bytes, pos1, pos1 + rd_length)
                      rr_type == FromPrimitive(DnsRRType, rrtype_num)
                      class   == FromPrimitive(DnsClass, class_num)
                  IN  IF ~rr_type.some THEN Panic("Invalid rrtype")
                      ELSE IF ~class.some THEN Panic("Invalid class")
                      ELSE Ok([ item |-> [name |-> nm.labels, rr_type |-> rr_type.v,
                                          class |-> class.v, ttl |-> ttl,
                                          rd_length |-> rd_length, record |-> record],
                                pos |-> pos1 ])

DnsResourceRecord_from_bytes(packet_bytes, pos) ==
  LET nm == deserialize_name(packet_bytes, pos) IN
  IF ~nm.ok THEN Panic("deserialize_name")
  ELSE LET new_pos == nm.pos IN
    IF \/ ~SliceOk(packet_bytes, new_pos, new_pos + 2)
       \/ ~SliceOk(packet_bytes, new_pos + 2, new_pos + 4)
       \/ ~SliceOk(packet_bytes, new_pos + 4, new_pos + 8)
       \/ ~SliceOk(packet_bytes, new_pos + 8, new_pos + 10)
    THEN Panic("range end index out of range for slice")
    ELSE LET rrtype_num == big_endian_bytes_to_u16(Slice(packet_bytes, new_pos, new_pos + 2))
             class_num  == big_endian_bytes_to_u16(Slice(packet_bytes, new_pos + 2, new_pos + 4))
             ttl        == big_endian_bytes_to_u32(Slice(packet_bytes, new_pos + 4, new_pos + 8))
             rd_length  == big_endian_bytes_to_u16(Slice(packet_bytes, new_pos + 8, new_pos + 10))
             pos1       == new_pos + 10
         IN  IF ~SliceOk(packet_bytes, pos1, pos1 + rd_length)
             THEN Panic("range end index out of range for slice")
             ELSE LET record  == Slice(packet_bytes, pos1, pos1 + rd_length)
                      rr_type == FromPrimitive(DnsRRType, rrtype_num)
                      class   == FromPrimitive(DnsClass, class_num)
                  IN  IF ~rr_type.some THEN Panic("Invalid rrtype")
                      ELSE IF ~class.some THEN Panic("Invalid class")
                      ELSE Ok([ item |-> [name |-> nm.labels, rr_type |-> rr_type.v,
                                          class |-> class.v, ttl |-> ttl,
                                          rd_length |-> rd_length, record |-> record],
                                pos |-> pos1 + rd_length ])

(***************************************************************************)
(* Packet codec                                                            *)
(***************************************************************************)

RECURSIVE QuestionsBytes(_)
\* for question in &self.questions { bytes.extend_from_slice(&question.to_bytes()) }
QuestionsBytes(qs) ==
  IF qs = <<>> THEN <<>> ELSE DnsQuestion_to_bytes(Head(qs)) \o QuestionsBytes(Tail(qs))

RECURSIVE RecordsBytes(_)
\* the same loop over one of the three resource-record sections
RecordsBytes(rs) ==
  IF rs = <<>> THEN <<>> ELSE DnsResourceRecord_to_bytes(Head(rs)) \o RecordsBytes(Tail(rs))

\* faulty variant: the authority section written before the answer section
DnsPacket_to_bytes_nsfirst(p) ==
  u16_to_big_endian_bytes(p.id)
    \o DnsFlags_to_bytes(p.flags)
    \o u16_to_big_endian_bytes(AsU16(Len(p.questions)))
    \o u16_to_big_endian_bytes(AsU16(Len(p.nameservers)))
    \o u16_to_big_endian_bytes(AsU16(Len(p.answers)))
    \o u16_to_big_endian_bytes(AsU16(Len(p.addl_recs)))
    \o QuestionsBytes(p.questions)
    \o RecordsBytes(p.nameservers)
    \o RecordsBytes(p.answers)
    \o RecordsBytes(p.addl_recs)

DnsPacket_to_bytes(p) ==
  u16_to_big_endian_bytes(p.id)
    \o DnsFlags_to_bytes(p.flags)
    \o u16_to_big_endian_bytes(AsU16(Len(p.questions)))
    \o u16_to_big_endian_bytes(AsU16(Len(p.answers)))
    \o u16_to_big_endian_bytes(AsU16(Len(p.nameservers)))
    \o u16_to_big_endian_bytes(AsU16(Len(p.addl_recs)))
    \o QuestionsBytes(p.questions)
    \o RecordsBytes(p.answers)
    \o RecordsBytes(p.nameservers)
    \o RecordsBytes(p.addl_recs)

\* faulty variant: the answer count read from the question count's offset
ReadCounts_anfromqd(b) ==
  [ qd_count |-> big_endian_bytes_to_u16(Slice(b, 4, 6)),
    an_count |-> big_endian_bytes_to_u16(Slice(b, 4, 6)),
    ns_count |-> big_endian_bytes_to_u16(Slice(b, 8, 10)),
    ar_count |-> big_endian_bytes_to_u16(Slice(b, 10, 12)) ]

\* the four counts of the header
ReadCounts(b) ==
  [ qd_count |-> big_endian_bytes_to_u16(Slice(b, 4, 6)),
    an_count |-> big_endian_bytes_to_u16(Slice(b, 6, 8)),
    ns_count |-> big_endian_bytes_to_u16(Slice(b, 8, 10)),
    ar_count |-> big_endian_bytes_to_u16(Slice(b, 10, 12)) ]

\* the header reads of DnsPacket::from_bytes, in the order the code makes them
ReadHeader(b) ==
  IF ~SliceOk(b, 0, 2) \/ ~SliceOk(b, 2, 4)
  THEN Panic("range end index out of range for slice")
  ELSE LET id    == big_endian_bytes_to_u16(Slice(b, 0, 2))
           flags == DnsFlags_from_bytes(Slice(b, 2, 4))
       IN  IF flags.kind = "Panic" THEN flags
           ELSE IF \/ ~SliceOk(b, 4, 6) \/ ~SliceOk(b, 6, 8)
                   \/ ~SliceOk(b, 8, 10) \/ ~SliceOk(b, 10, 12)
           THEN Panic("range end index out of range for slice")
           ELSE LET c == ReadCounts(b) IN
             Ok([ id |-> id, flags |-> flags.val,
                  qd_count |-> c.qd_count, an_count |-> c.an_count,
                  ns_count |-> c.ns_count, ar_count |-> c.ar_count,
                  questions |-> <<>>, answers |-> <<>>, nameservers |-> <<>>,
                  addl_recs |-> <<>>, pos |-> 12, section |-> "header" ])

\* the loop of DnsPacket::from_bytes that runs next: `for _ in 0..count` pushes one
\* element per pass, so the pass number is the length of the section built so far
NextLoop(f) ==
  IF Len(f.questions) < f.qd_count THEN "questions"
  ELSE IF Len(f.answers) < f.an_count THEN "answers"
  ELSE IF Len(f.nameservers) < f.ns_count THEN "nameservers"
  ELSE IF Len(f.addl_recs) < f.ar_count THEN "addl_recs"
  ELSE "return"

DecodedPacket(f) ==
  [ id |-> f.id, flags |-> f.flags, questions |-> f.questions, answers |-> f.answers,
    nameservers |-> f.nameservers, addl_recs |-> f.addl_recs ]

(***************************************************************************)
(* The integer helpers applied to their inputs (SpecInt)                   *)
(***************************************************************************)

\* bytes the 32-bit samples are built from
ByteSamples == {0, 1, 2, 32, 128, 134, 255}

\* 32-bit inputs, as limb pairs: every number whose four bytes are sampled bytes
U32Samples ==
  { << a * 256 + b, c * 256 + d >> :
      a \in ByteSamples, b \in ByteSamples, c \in ByteSamples, d \in ByteSamples }

\* bytes that may follow the integer in the slice handed to the parser
TrailingBytes == { <<>>, <<0>>, <<255, 1>> }

InitInt ==
  /\ pc = "start"
  /\ input \in [kind : {"u16"}, n : 0..(2 ^ 16 - 1)] \cup [kind : {"u32"}, n : U32Samples]
  /\ bytes = <<>>
  /\ result = None
  /\ frame = None

U16Serialize ==
  /\ pc = "start" /\ input.kind = "u16"
  /\ bytes' = u16_to_big_endian_bytes(input.n)
  /\ pc' = "serialized"
  /\ UNCHANGED <<input, result, frame>>

U16Parse ==
  /\ pc = "serialized" /\ input.kind = "u16"
  /\ \E extra \in TrailingBytes :
       result' = [kind |-> "Num", n |-> big_endian_bytes_to_u16(bytes \o extra),
                  extra |-> extra]
  /\ pc' = "parsed"
  /\ UNCHANGED <<input, bytes, frame>>

U32Serialize ==
  /\ pc = "start" /\ input.kind = "u32"
  /\ bytes' = u32_to_big_endian_bytes(input.n)
  /\ pc' = "serialized"
  /\ UNCHANGED <<input, result, frame>>

U32Parse ==
  /\ pc = "serialized" /\ input.kind = "u32"
  /\ \E extra \in TrailingBytes :
       result' = [kind |-> "Num", n |-> big_endian_bytes_to_u32(bytes \o extra),
                  extra |-> extra]
  /\ pc' = "parsed"
  /\ UNCHANGED <<input, bytes, frame>>

NextInt == U16Serialize \/ U16Parse \/ U32Serialize \/ U32Parse

SpecInt == InitInt /\ [][NextInt]_vars

(***************************************************************************)
(* The flags codec applied to its inputs (SpecFlags)                       *)
(***************************************************************************)

FlagsValues ==
  [ qr_bit : BOOLEAN, opcode : Variants(DnsOpcode), aa_bit : BOOLEAN, tc_bit : BOOLEAN,
    rd_bit : BOOLEAN, ra_bit : BOOLEAN, ad_bit : BOOLEAN, cd_bit : BOOLEAN,
    rcode : Variants(DnsRCode) ]

InitFlags ==
  /\ pc = "start"
  /\ input \in [kind : {"flags"}, val : FlagsValues] \cup [kind : {"raw"}, val : Byte \X Byte]
  /\ bytes = <<>>
  /\ result = None
  /\ frame = None

\* flags.to_bytes() on a DnsFlags value
FlagsToBytes ==
  /\ pc = "start" /\ input.kind = "flags"
  /\ bytes' = DnsFlags_to_bytes(input.val)
  /\ pc' = "flags_encoded"
  /\ UNCHANGED <<input, result, frame>>

\* DnsFlags::from_bytes on the bytes just encoded
FlagsFromEncoded ==
  /\ pc = "flags_encoded"
  /\ result' = DnsFlags_from_bytes(bytes)
  /\ pc' = "flags_decoded"
  /\ UNCHANGED <<input, bytes, frame>>

\* DnsFlags::from_bytes on two arbitrary bytes
FlagsFromRaw ==
  /\ pc = "start" /\ input.kind = "raw"
  /\ bytes' = input.val
  /\ result' = DnsFlags_from_bytes(input.val)
  /\ pc' = "flags_decoded"
  /\ UNCHANGED <<input, frame>>

\* to_bytes() on the value decoded from two arbitrary bytes
FlagsReencode ==
  /\ pc = "flags_decoded" /\ input.kind = "raw" /\ result.kind = "Ok"
  /\ bytes' = DnsFlags_to_bytes(result.val)
  /\ pc' = "flags_reencoded"
  /\ UNCHANGED <<input, result, frame>>

NextFlags == FlagsToBytes \/ FlagsFromEncoded \/ FlagsFromRaw \/ FlagsReencode

SpecFlags == InitFlags /\ [][NextFlags]_vars

(***************************************************************************)
(* Claims about the integer helpers and the flags codec                    *)
(***************************************************************************)

\* C10: parsing the serialisation of n gives n back (every 16-bit n, the sampled
\* 32-bit n), the serialisation is most-significant byte first (32902 is 0x80 0x86),
\* and bytes that follow the integer in the slice do not change the parsed value.
\* A 32-bit n is the limb pair <<n \div 2^16, n % 2^16>>.
C10_IntRoundTrip ==
  /\ pc \in {"serialized", "parsed"} /\ input.kind = "u16" =>
       /\ Len(bytes) = 2
       /\ bytes[1] = input.n \div 256 /\ bytes[2] = input.n % 256
       /\ (input.n = 32902 => bytes = <<128, 134>>)
  /\ pc \in {"serialized", "parsed"} /\ input.kind = "u32" =>
       /\ Len(bytes) = 4
       /\ bytes[1] = input.n[1] \div 256 /\ bytes[2] = input.n[1] % 256
       /\ bytes[3] = input.n[2] \div 256 /\ bytes[4] = input.n[2] % 256
  /\ pc = "parsed" => result.n = input.n

C10_Witness ==
  /\ pc = "parsed" /\ input = [kind |-> "u16", n |-> 32902]
  /\ bytes = <<128, 134>> /\ result.extra = <<0>> /\ result.n = 32902

C10_WitnessU32 ==
  /\ pc = "parsed" /\ input = [kind |-> "u32", n |-> <<8194, 32902>>]
  /\ bytes = <<32, 2, 128, 134>> /\ result.extra = <<255, 1>> /\ result.n = <<8194, 32902>>

\* C8: for every DnsFlags value (every combination of the seven booleans, every
\* registered opcode and response code) from_bytes(to_bytes(flags)) is Ok(flags).
C8_FlagsRoundTrip ==
  pc = "flags_decoded" /\ input.kind = "flags" => result = Ok(input.val)

C8_Witness ==
  /\ pc = "flags_decoded" /\ input.kind = "flags"
  /\ input.val.opcode = "DSO" /\ input.val.rcode = "DSOTypeNI"
  /\ input.val.qr_bit /\ ~input.val.aa_bit /\ input.val.ad_bit /\ ~input.val.cd_bit
  /\ result.kind = "Ok"

Bit(b) == IF b THEN 1 ELSE 0

RegisteredNumbers(enum) == { e[2] : e \in enum }

\* the two bytes carry a registered opcode (bits 3..6 of the first byte) and a
\* registered response code (bits 0..3 of the second)
RegisteredFlagBytes(b) ==
  /\ (b[1] \div 8) % 16 \in RegisteredNumbers(DnsOpcode)
  /\ b[2] % 16 \in RegisteredNumbers(DnsRCode)

\* C9: two bytes with registered opcode and rcode decode with qr = bit 7, opcode =
\* bits 3..6, aa = bit 2, tc = bit 1, rd = bit 0 of the first byte and ra = bit 7,
\* ad = bit 5, cd = bit 4, rcode = bits 0..3 of the second; 0x01 0x20 and 0xAC 0x23
\* decode to the two values of the repository's test.
C9_FlagsLayout ==
  pc = "flags_decoded" /\ input.kind = "raw" /\ RegisteredFlagBytes(input.val) =>
    /\ result.kind = "Ok"
    /\ LET f == result.val
           z == (input.val[2] \div 64) % 2
       IN  /\ input.val[1] = 128 * Bit(f.qr_bit) + 8 * Discriminant(DnsOpcode, f.opcode)
                             + 4 * Bit(f.aa_bit) + 2 * Bit(f.tc_bit) + Bit(f.rd_bit)
           /\ input.val[2] = 128 * Bit(f.ra_bit) + 64 * z + 32 * Bit(f.ad_bit)
                             + 16 * Bit(f.cd_bit) + Discriminant(DnsRCode, f.rcode)
    /\ input.val = <<1, 32>> =>
         result.val = [ qr_bit |-> FALSE, opcode |-> "Query", aa_bit |-> FALSE,
                        tc_bit |-> FALSE, rd_bit |-> TRUE, ra_bit |-> FALSE,
                        ad_bit |-> TRUE, cd_bit |-> FALSE, rcode |-> "NoError" ]
    /\ input.val = <<172, 35>> =>
         result.val = [ qr_bit |-> TRUE, opcode |-> "Update", aa_bit |-> TRUE,
                        tc_bit |-> FALSE, rd_bit |-> FALSE, ra_bit |-> FALSE,
                        ad_bit |-> TRUE, cd_bit |-> FALSE, rcode |-> "NXDomain" ]

C9_Witness ==
  /\ pc = "flags_decoded" /\ input = [kind |-> "raw", val |-> <<172, 35>>]
  /\ result.kind = "Ok" /\ result.val.opcode = "Update" /\ result.val.rcode = "NXDomain"

(***************************************************************************)
(* The packet codec at work (Spec): a packet or a record is encoded, a     *)
(* datagram arrives, and DnsPacket::from_bytes decodes the buffer one      *)
(* loop pass at a time.                                                    *)
(***************************************************************************)

\* most elements a packet or a datagram carries, over its four sections
MaxRecords == 2

IdSamples == {4660}

FlagsSamples ==
  { [ qr_bit |-> FALSE, opcode |-> "Query", aa_bit |-> FALSE, tc_bit |-> FALSE,
      rd_bit |-> TRUE, ra_bit |-> FALSE, ad_bit |-> TRUE, cd_bit |-> FALSE,
      rcode |-> "NoError" ],
    [ qr_bit |-> TRUE, opcode |-> "Update", aa_bit |-> TRUE, tc_bit |-> FALSE,
      rd_bit |-> FALSE, ra_bit |-> FALSE, ad_bit |-> TRUE, cd_bit |-> FALSE,
      rcode |-> "NXDomain" ] }

QuestionSamples ==
  { [qname |-> << <<97>> >>, qtype |-> "A", qclass |-> "IN"],
    [qname |-> << <<97, 98>>, <<99>> >>, qtype |-> "DLV", qclass |-> "ANY"] }

\* records as a caller may construct them: the fields are public, so the stored
\* rd_length need not be the length of the stored payload
RecordSamples ==
  { [name |-> <<>>, rr_type |-> "A", class |-> "IN", ttl |-> <<0, 300>>,
     rd_length |-> 2, record |-> <<10, 1>>],
    [name |-> << <<97>> >>, rr_type |-> "AMTRELAY", class |-> "NONE",
     ttl |-> <<65535, 65535>>, rd_length |-> 0, record |-> <<>>],
    [name |-> <<>>, rr_type |-> "TXT", class |-> "IN", ttl |-> <<1, 0>>,
     rd_length |-> 0, record |-> <<7>>],
    [name |-> <<>>, rr_type |-> "NS", class |-> "CH", ttl |-> <<0, 0>>,
     rd_length |-> 2, record |-> <<7>>] }

\* how many elements each of the four sections holds
CountTuples ==
  { c \in (0..MaxRecords) \X (0..MaxRecords) \X (0..MaxRecords) \X (0..MaxRecords) :
      c[1] + c[2] + c[3] + c[4] <= MaxRecords }

Packets ==
  UNION { [ id : IdSamples, flags : FlagsSamples,
            questions : [1..c[1] -> QuestionSamples],
            answers : [1..c[2] -> RecordSamples],
            nameservers : [1..c[3] -> RecordSamples],
            addl_recs : [1..c[4] -> RecordSamples] ] : c \in CountTuples }

\* wire images of questions: well formed, unassigned type 54, unassigned class 0
RawQuestions ==
  { <<1, 97, 0,  0, 1,  0, 1>>,
    <<1, 97, 0,  0, 54,  0, 1>>,
    <<1, 97, 0,  0, 1,  0, 0>> }

\* wire images of records: well formed, unassigned type 54, an EDNS OPT record
\* (type 41, the class field holding the payload size 4096), and a record whose
\* name is a compression pointer to offset 12
RawRecords ==
  { <<0,  0, 1,  0, 1,  0, 0, 1, 44,  0, 2,  10, 1>>,
    <<0,  0, 54,  0, 1,  0, 0, 0, 0,  0, 0>>,
    <<0,  0, 41,  16, 0,  0, 0, 0, 0,  0, 0>>,
    <<192, 12,  0, 5,  0, 1,  0, 0, 0, 60,  0, 1,  9>> }

RECURSIVE Flatten(_)
Flatten(ss) == IF ss = <<>> THEN <<>> ELSE Head(ss) \o Flatten(Tail(ss))

\* datagrams whose header counts match the elements that follow
RawPackets ==
  UNION { { <<18, 52,  1, 32,  0, c[1],  0, c[2],  0, c[3],  0, c[4]>>
              \o Flatten(q) \o Flatten(a) \o Flatten(n) \o Flatten(r) :
              q \in [1..c[1] -> RawQuestions], a \in [1..c[2] -> RawRecords],
              n \in [1..c[3] -> RawRecords], r \in [1..c[4] -> RawRecords] } :
          c \in CountTuples }

\* headers carrying the reserved opcode 3 and the reserved response code 12
RawBadFlags ==
  { <<18, 52,  24, 0,  0, 0, 0, 0, 0, 0, 0, 0>>,
    <<18, 52,  1, 12,  0, 0, 0, 0, 0, 0, 0, 0>> }

\* the buffers and datagrams at hand: any of the above, cut short anywhere
Datagrams ==
  UNION { { SubSeq(w, 1, k) : k \in 0..Len(w) } : w \in RawPackets \cup RawBadFlags }

Init ==
  /\ pc = "idle"
  /\ input = None
  /\ bytes = <<>>
  /\ result = None
  /\ frame = None

\* packet.to_bytes()
ToBytes ==
  /\ pc = "idle"
  /\ \E p \in Packets :
       /\ input' = [kind |-> "packet", val |-> p]
       /\ bytes' = DnsPacket_to_bytes(p)
  /\ pc' = "encoded"
  /\ UNCHANGED <<result, frame>>

\* record.to_bytes() on a resource record of its own
RecordToBytes ==
  /\ pc = "idle"
  /\ \E rr \in RecordSamples :
       /\ input' = [kind |-> "record", val |-> rr]
       /\ bytes' = DnsResourceRecord_to_bytes(rr)
  /\ pc' = "record_encoded"
  /\ UNCHANGED <<result, frame>>

\* a caller hands DnsPacket::from_bytes a buffer of its own
CallFromBytes ==
  /\ pc = "idle"
  /\ \E d \in Datagrams : bytes' = d
  /\ input' = [kind |-> "buffer"]
  /\ pc' = "received"
  /\ UNCHANGED <<result, frame>>

\* let mut buf = [0; 500]
BufSize == 500

\* socket.recv_from(&mut buf): the number of bytes received, and the buffer after
\* it (a datagram longer than the buffer is cut to it)
recv_amt(d) == IF Len(d) < BufSize THEN Len(d) ELSE BufSize

recv_buf(d) == [i \in 1..BufSize |-> IF i <= recv_amt(d) THEN d[i] ELSE 0]

\* the slice listen_once passes to dns::process_packet_bytes
PassedSlice(buf, amt) == buf

\* listen_once: a datagram arrives and the decoder is called.  The body of
\* dns::process_packet_bytes is not among the sources at hand; as the specification
\* has it, it hands its argument to DnsPacket::from_bytes.
Receive ==
  /\ pc = "idle"
  /\ \E d \in Datagrams :
       /\ input' = [kind |-> "datagram", amt |-> recv_amt(d),
                    data |-> SubSeq(d, 1, recv_amt(d))]
       /\ bytes' = PassedSlice(recv_buf(d), recv_amt(d))
  /\ pc' = "received"
  /\ UNCHANGED <<result, frame>>

\* DnsPacket::from_bytes, the header
FromBytesHeader ==
  /\ pc \in {"encoded", "received"}
  /\ LET h == ReadHeader(bytes) IN
       IF h.kind = "Panic"
       THEN /\ result' = h
            /\ frame' = [section |-> "header", pos |-> 0]
            /\ pc' = "panicked"
       ELSE /\ frame' = h.val
            /\ pc' = NextLoop(h.val)
            /\ UNCHANGED result
  /\ UNCHANGED <<input, bytes>>

\* one pass of `for _ in 0..qd_count`
QuestionLoop ==
  /\ pc = "questions"
  /\ LET q == DecodeQuestion(bytes, frame.pos) IN
       IF q.kind = "Panic"
       THEN /\ result' = q
            /\ frame' = [frame EXCEPT !.section = "questions"]
            /\ pc' = "panicked"
       ELSE LET f == [frame EXCEPT !.questions = Append(@, q.val.item),
                                   !.pos = q.val.pos, !.section = "questions"]
            IN  /\ frame' = f
                /\ pc' = NextLoop(f)
                /\ UNCHANGED result
  /\ UNCHANGED <<input, bytes>>

\* one pass of `for _ in 0..an_count`
AnswerLoop ==
  /\ pc = "answers"
  /\ LET rr == DnsResourceRecord_from_bytes(bytes, frame.pos) IN
       IF rr.kind = "Panic"
       THEN /\ result' = rr
            /\ frame' = [frame EXCEPT !.section = "answers"]
            /\ pc' = "panicked"
       ELSE LET f == [frame EXCEPT !.answers = Append(@, rr.val.item),
                                   !.pos = rr.val.pos, !.section = "answers"]
            IN  /\ frame' = f
                /\ pc' = NextLoop(f)
                /\ UNCHANGED result
  /\ UNCHANGED <<input, bytes>>

\* one pass of `for _ in 0..ns_count`
NameserverLoop ==
  /\ pc = "nameservers"
  /\ LET rr == DnsResourceRecord_from_bytes(bytes, frame.pos) IN
       IF rr.kind = "Panic"
       THEN /\ result' = rr
            /\ frame' = [frame EXCEPT !.section = "nameservers"]
            /\ pc' = "panicked"
       ELSE LET f == [frame EXCEPT !.nameservers = Append(@, rr.val.item),
                                   !.pos = rr.val.pos, !.section = "nameservers"]
            IN  /\ frame' = f
                /\ pc' = NextLoop(f)
                /\ UNCHANGED result
  /\ UNCHANGED <<input, bytes>>

\* one pass of `for _ in 0..ar_count`
AddlLoop ==
  /\ pc = "addl_recs"
  /\ LET rr == DnsResourceRecord_from_bytes(bytes, frame.pos) IN
       IF rr.kind = "Panic"
       THEN /\ result' = rr
            /\ frame' = [frame EXCEPT !.section = "addl_recs"]
            /\ pc' = "panicked"
       ELSE LET f == [frame EXCEPT !.addl_recs = Append(@, rr.val.item),
                                   !.pos = rr.val.pos, !.section = "addl_recs"]
            IN  /\ frame' = f
                /\ pc' = NextLoop(f)
                /\ UNCHANGED result
  /\ UNCHANGED <<input, bytes>>

\* Ok(DnsPacket { .. })
Return ==
  /\ pc = "return"
  /\ result' = Ok(DecodedPacket(frame))
  /\ pc' = "done"
  /\ UNCHANGED <<input, bytes, frame>>

Next ==
  \/ CallFromBytes \/ Receive \/ ToBytes \/ RecordToBytes \/ FromBytesHeader
  \/ QuestionLoop \/ AnswerLoop \/ NameserverLoop \/ AddlLoop \/ Return

Spec == Init /\ [][Next]_vars

(***************************************************************************)
(* Claims about the packet codec                                           *)
(***************************************************************************)

Stopped == pc \in {"done", "panicked"}

Err(e) == [kind |-> "Err", err |-> e]

U16At(b, off) == b[off + 1] * 256 + b[off + 2]

\* the data-model constraints on a packet value: labels of 1..63 bytes, names of at
\* most 255 encoded bytes, every record's rd_length the length of its payload, and
\* section lengths that fit the 16-bit counts
ValidName(labels) ==
  /\ \A i \in 1..Len(labels) : Len(labels[i]) \in 1..63
  /\ Len(serialize_name(labels)) <= 255

ValidRecord(rr) == ValidName(rr.name) /\ rr.rd_length = Len(rr.record)

ValidSection(rs) ==
  Len(rs) < 2 ^ 16 /\ \A i \in 1..Len(rs) : ValidRecord(rs[i])

ValidPacket(p) ==
  /\ Len(p.questions) < 2 ^ 16
  /\ \A i \in 1..Len(p.questions) : ValidName(p.questions[i].qname)
  /\ ValidSection(p.answers) /\ ValidSection(p.nameservers) /\ ValidSection(p.addl_recs)

\* C1: decoding the encoding of a valid packet ends with Ok of a packet equal to
\* the original in every field.
C1_RoundTrip ==
  Stopped /\ input.kind = "packet" /\ ValidPacket(input.val) => result = Ok(input.val)

C1_Witness ==
  /\ pc = "done" /\ input.kind = "packet" /\ ValidPacket(input.val)
  /\ Len(input.val.questions) = 1 /\ Len(input.val.addl_recs) = 1
  /\ input.val.addl_recs[1].record = <<10, 1>>
  /\ result = Ok(input.val)

\* the registered opcode/rcode test on the flag bytes of a buffer with a whole header
UnknownCodeInFlags == Len(bytes) >= 12 /\ ~RegisteredFlagBytes(Slice(bytes, 2, 4))

\* the question at the cursor is whole and its type or class is unassigned
UnknownCodeInQuestion ==
  LET nm == deserialize_name(bytes, frame.pos) IN
  /\ nm.ok /\ nm.pos + 4 <= Len(bytes)
  /\ \/ U16At(bytes, nm.pos) \notin RegisteredNumbers(DnsRRType)
     \/ U16At(bytes, nm.pos + 2) \notin RegisteredNumbers(DnsClass)

\* the record at the cursor is whole and its type or class is unassigned
UnknownCodeInRecord ==
  LET nm == deserialize_name(bytes, frame.pos) IN
  /\ nm.ok /\ nm.pos + 10 <= Len(bytes)
  /\ nm.pos + 10 + U16At(bytes, nm.pos + 8) <= Len(bytes)
  /\ \/ U16At(bytes, nm.pos) \notin RegisteredNumbers(DnsRRType)
     \/ U16At(bytes, nm.pos + 2) \notin RegisteredNumbers(DnsClass)

InRecordLoop == pc \in {"answers", "nameservers", "addl_recs"}

\* C2: when the decoder meets an opcode, response code, type or class outside its
\* registry, the step that meets it ends the decode with the error UnknownEnumValue
\* returned to the caller (no default variant, no panic).
C2_UnknownCodeIsError ==
  [][ \/ pc \in {"encoded", "received"} /\ UnknownCodeInFlags
      \/ pc = "questions" /\ UnknownCodeInQuestion
      \/ InRecordLoop /\ UnknownCodeInRecord
      => result' = Err("UnknownEnumValue") ]_vars

\* C3: on a buffer of 0..11 bytes the decode ends with the error TruncatedInput.
C3_ShortHeaderIsError ==
  Stopped /\ Len(bytes) < 12 => result = Err("TruncatedInput")

\* the question at the cursor lacks part of its type or class
TruncatedQuestion ==
  LET nm == deserialize_name(bytes, frame.pos) IN
  nm.ok /\ nm.pos + 4 > Len(bytes)

\* the record at the cursor lacks part of its type, class, TTL or length field, or
\* part of the rd_length payload bytes
TruncatedRecord ==
  LET nm == deserialize_name(bytes, frame.pos) IN
  /\ nm.ok
  /\ \/ nm.pos + 10 > Len(bytes)
     \/ nm.pos + 10 + U16At(bytes, nm.pos + 8) > Len(bytes)

\* C4: when the buffer ends inside the fixed-width fields of a question or record,
\* or inside a record's payload, the step that meets the end makes the whole decode
\* return an error to the caller: no packet, no crash.
C4_TruncatedSectionIsError ==
  [][ \/ pc = "questions" /\ TruncatedQuestion
      \/ InRecordLoop /\ TruncatedRecord
      => result'.kind = "Err" ]_vars

\* C5: the 2-byte length field a record's to_bytes emits equals the number of
\* payload bytes emitted after it.
C5_LengthFieldIsPayloadLength ==
  pc = "record_encoded" =>
    LET n == Len(serialize_name(input.val.name)) IN
    U16At(bytes, n + 8) = Len(bytes) - (n + 10)

EncodedSections(p) ==
  Flatten([i \in 1..Len(p.questions) |-> DnsQuestion_to_bytes(p.questions[i])])
    \o Flatten([i \in 1..Len(p.answers) |-> DnsResourceRecord_to_bytes(p.answers[i])])
    \o Flatten([i \in 1..Len(p.nameservers) |-> DnsResourceRecord_to_bytes(p.nameservers[i])])
    \o Flatten([i \in 1..Len(p.addl_recs) |-> DnsResourceRecord_to_bytes(p.addl_recs[i])])

\* C6: bytes 4..11 of an encoded packet are the big-endian 16-bit lengths of
\* questions, answers, nameservers and addl_recs, in that order, and the encodings
\* of the four sections follow the header in the same order.
C6_DerivedCounts ==
  input.kind = "packet" =>
    /\ U16At(bytes, 4) = Len(input.val.questions)
    /\ U16At(bytes, 6) = Len(input.val.answers)
    /\ U16At(bytes, 8) = Len(input.val.nameservers)
    /\ U16At(bytes, 10) = Len(input.val.addl_recs)
    /\ SubSeq(bytes, 13, Len(bytes)) = EncodedSections(input.val)

C6_Witness ==
  /\ pc = "encoded" /\ input.kind = "packet"
  /\ Len(input.val.questions) = 1 /\ Len(input.val.answers) = 0
  /\ Len(input.val.nameservers) = 1 /\ Len(input.val.addl_recs) = 0
  /\ SubSeq(bytes, 5, 12) = <<0, 1, 0, 0, 0, 1, 0, 0>>
  /\ Len(bytes) > 12

\* C7: when the decode of a buffer succeeds, the returned packet's sections have
\* the lengths the header fields at offsets 4, 6, 8 and 10 of the buffer state.
C7_CountsMatchSections ==
  pc = "done" /\ result.kind = "Ok" =>
    /\ Len(result.val.questions) = U16At(bytes, 4)
    /\ Len(result.val.answers) = U16At(bytes, 6)
    /\ Len(result.val.nameservers) = U16At(bytes, 8)
    /\ Len(result.val.addl_recs) = U16At(bytes, 10)

C7_Witness ==
  /\ pc = "done" /\ result.kind = "Ok" /\ input.kind = "buffer"
  /\ U16At(bytes, 4) = 1 /\ U16At(bytes, 6) = 0 /\ U16At(bytes, 8) = 1
  /\ Len(result.val.questions) = 1 /\ Len(result.val.nameservers) = 1

\* the section a record loop is filling
SectionOf(f, loop) ==
  CASE loop = "answers" -> f.answers
    [] loop = "nameservers" -> f.nameservers
    [] loop = "addl_recs" -> f.addl_recs

\* C11: a record decode that succeeds at cursor pos, the name decode ending at
\* offset n, reads type, class, TTL and rd_length from bytes n..n+10 in that order,
\* returns as payload exactly the rd_length bytes at n+10.., and returns the cursor
\* n + 10 + rd_length; that cursor is where the loop stands for its next pass (the
\* premise of this same statement for the next record).
C11_RecordCursor ==
  [][ InRecordLoop /\ pc' # "panicked" =>
        LET nm  == deserialize_name(bytes, frame.pos)
            n   == nm.pos
            sec == SectionOf(frame', pc)
            rr  == sec[Len(sec)]
        IN  /\ nm.ok
            /\ Len(sec) = Len(SectionOf(frame, pc)) + 1
            /\ rr.name = nm.labels
            /\ Discriminant(DnsRRType, rr.rr_type) = U16At(bytes, n)
            /\ Discriminant(DnsClass, rr.class) = U16At(bytes, n + 2)
            /\ rr.ttl = << U16At(bytes, n + 4), U16At(bytes, n + 6) >>
            /\ rr.rd_length = U16At(bytes, n + 8)
            /\ rr.record = SubSeq(bytes, n + 11, n + 10 + rr.rd_length)
            /\ Len(rr.record) = rr.rd_length
            /\ frame'.pos = n + 10 + rr.rd_length ]_vars

\* a question, then an answer whose name is a pointer to the question's name: the
\* name decode ends at 21, the payload is the byte at 31, the cursor stands at 32
C11_Witness ==
  /\ pc \in {"answers", "nameservers", "addl_recs", "return", "done"}
  /\ Len(frame.questions) = 1 /\ Len(frame.answers) = 1
  /\ Len(frame.nameservers) = 0 /\ Len(frame.addl_recs) = 0
  /\ frame.answers[1].name = << <<97>> >>
  /\ frame.answers[1].rd_length = 1 /\ frame.answers[1].record = <<9>>
  /\ frame.pos = 32

\* C13: in the two bytes to_bytes gives for a DnsFlags value, the reserved bit (bit
\* 6 of the second byte) is 0, the opcode fills bits 3..6 of the first byte and the
\* response code bits 0..3 of the second and neither touches another bit; so for
\* two bytes b with registered opcode and rcode, from_bytes(b).to_bytes() is b with
\* bit 6 of the second byte cleared and nothing else changed.
C13_ReservedBitAndIsolation ==
  /\ pc = "flags_encoded" =>
       LET f == input.val IN
       /\ (bytes[2] \div 64) % 2 = 0
       /\ bytes[1] = 128 * Bit(f.qr_bit) + 8 * Discriminant(DnsOpcode, f.opcode)
                     + 4 * Bit(f.aa_bit) + 2 * Bit(f.tc_bit) + Bit(f.rd_bit)
       /\ bytes[2] = 128 * Bit(f.ra_bit) + 32 * Bit(f.ad_bit) + 16 * Bit(f.cd_bit)
                     + Discriminant(DnsRCode, f.rcode)
  /\ pc = "flags_decoded" /\ input.kind = "raw" /\ RegisteredFlagBytes(input.val) =>
       result.kind = "Ok"
  /\ pc = "flags_reencoded" =>
       /\ RegisteredFlagBytes(input.val)
       /\ bytes = << input.val[1], input.val[2] - 64 * ((input.val[2] \div 64) % 2) >>

\* 0xAC 0x63 (the reserved bit set) decodes and encodes back to 0xAC 0x23
C13_Witness ==
  /\ pc = "flags_reencoded" /\ input.val = <<172, 99>> /\ bytes = <<172, 35>>

\* C12: after a datagram of amt bytes is received, the decoder is handed exactly
\* those amt bytes, and so reads nothing of the buffer beyond them as packet
\* content.
C12_DecoderGetsReceivedBytes ==
  input.kind = "datagram" =>
    /\ Len(bytes) = input.amt
    /\ bytes = input.data
    /\ pc \in {"questions", "answers", "nameservers", "addl_recs", "return", "done"} =>
         frame.pos <= input.amt

====
